---- MODULE Spec2Model ----
(***************************************************************************)
(* A model of the bens_number_theory library: the arbitrary-precision      *)
(* factorial, the Lucas / Fibonacci / Dying-Rabbits generators, the        *)
(* Newton square-root approximator and the two constant estimators         *)
(* (estimate_pi_ratio, golden_ratio).                                      *)
(*                                                                         *)
(* The library computes on num::BigInt and dashu IBig / UBig / RBig.       *)
(* TLC's integers are 32 bits wide, so unbounded integers are modelled as  *)
(* little-endian sequences of limbs in base 1000 (no high zero limb; the   *)
(* empty sequence is zero), signed integers as [neg, mag] and rationals    *)
(* as [num, den] in lowest terms with den > 0.                             *)
(***************************************************************************)
EXTENDS Integers, Sequences, FiniteSets, TLC

\* three decimal digits to a limb
BASE == 10 * 10 * 10

\* TRUE, once v is evaluated: TLC evaluates the arguments of an operator only
\* when they are used, and a loop written as a recursion tests Evaluated(v)
\* before it passes v on, so that TLC's evaluation stack stays shallow
Evaluated(v) == v = v

MinI(a, b) == IF a < b THEN a ELSE b
MaxI(a, b) == IF a < b THEN b ELSE a

(***************************************************************************)
(* Natural numbers of unbounded magnitude (UBig, the magnitude of BigInt). *)
(* Every recursion is by halving a range, so its depth is logarithmic.     *)
(***************************************************************************)
Limb(s, i) == IF i >= 1 /\ i <= Len(s) THEN s[i] ELSE 0

\* the highest index in lo..hi holding a nonzero limb, 0 when there is none
RECURSIVE TopNZ(_, _, _)
TopNZ(s, lo, hi) ==
    IF lo > hi THEN 0
    ELSE IF lo = hi THEN (IF s[lo] # 0 THEN lo ELSE 0)
    ELSE LET mid == (lo + hi) \div 2
             h == TopNZ(s, mid + 1, hi)
         IN IF h # 0 THEN h ELSE TopNZ(s, lo, mid)

NatTrim(s) == SubSeq(s, 1, TopNZ(s, 1, Len(s)))

\* carry propagation over s[lo..hi] with carry cin: <<limbs, carry out>>
RECURSIVE CarryRange(_, _, _, _)
CarryRange(s, lo, hi, cin) ==
    IF lo = hi
    THEN LET v == s[lo] + cin IN << <<v % BASE>>, v \div BASE >>
    ELSE LET mid == (lo + hi) \div 2
             L == CarryRange(s, lo, mid, cin)
             R == CarryRange(s, mid + 1, hi, L[2])
         IN << L[1] \o R[1], R[2] >>

\* the canonical number of a sequence of (possibly out-of-range) limbs
NatCarry(s) == IF Len(s) = 0 THEN <<>> ELSE NatTrim(CarryRange(s, 1, Len(s), 0)[1])

NatFromInt(n) ==
    NatTrim(<< n % BASE, (n \div BASE) % BASE, (n \div (BASE * BASE)) % BASE,
               n \div (BASE * BASE * BASE) >>)

\* defined for magnitudes below 2^31
NatToInt(a) ==
    Limb(a, 1) + BASE * Limb(a, 2) + BASE * BASE * Limb(a, 3)
        + BASE * BASE * BASE * Limb(a, 4)

NatIsZero(a) == Len(a) = 0

\* -1, 0, 1 by the highest limb in lo..hi in which a and b differ
RECURSIVE CmpRange(_, _, _, _)
CmpRange(a, b, lo, hi) ==
    IF lo > hi THEN 0
    ELSE IF lo = hi
         THEN (IF a[lo] < b[lo] THEN -1 ELSE IF a[lo] > b[lo] THEN 1 ELSE 0)
    ELSE LET mid == (lo + hi) \div 2
             h == CmpRange(a, b, mid + 1, hi)
         IN IF h # 0 THEN h ELSE CmpRange(a, b, lo, mid)

NatCmp(a, b) ==
    IF Len(a) < Len(b) THEN -1
    ELSE IF Len(a) > Len(b) THEN 1
    ELSE CmpRange(a, b, 1, Len(a))

NatLess(a, b) == NatCmp(a, b) < 0
NatLeq(a, b) == NatCmp(a, b) <= 0

NatAdd(a, b) ==
    LET n == MaxI(Len(a), Len(b)) + 1
    IN NatCarry([i \in 1..n |-> Limb(a, i) + Limb(b, i)])

\* a - b for a >= b
NatSub(a, b) == NatCarry([i \in 1..Len(a) |-> a[i] - Limb(b, i)])

\* the sum of a[i] * b[k + 1 - i] for i in lo..hi
RECURSIVE ColSum(_, _, _, _, _)
ColSum(a, b, k, lo, hi) ==
    IF lo > hi THEN 0
    ELSE IF lo = hi THEN a[lo] * b[k + 1 - lo]
    ELSE LET mid == (lo + hi) \div 2
         IN ColSum(a, b, k, lo, mid) + ColSum(a, b, k, mid + 1, hi)

NatMul(a, b) ==
    IF Len(a) = 0 \/ Len(b) = 0 THEN <<>>
    ELSE LET la == Len(a)
             lb == Len(b)
         IN NatCarry([k \in 1..(la + lb + 1) |->
                        ColSum(a, b, k, MaxI(1, k + 1 - lb), MinI(la, k))])

NatMulSmall(a, d) == NatCarry([i \in 1..(Len(a) + 2) |-> Limb(a, i) * d])

\* the quotient limb r \div d and the remainder, for r < d * BASE: an estimate
\* from the leading limbs (never too large, at most a few too small), then
\* corrected by subtraction: << <<limb>>, remainder >>
RECURSIVE QuoFix(_, _, _)
QuoFix(q, r, d) == IF NatLess(r, d) THEN << <<q>>, r >> ELSE QuoFix(q + 1, NatSub(r, d), d)

QuoEstimate(r, d, ld) ==
    IF ld = 1
    THEN (Limb(r, 2) * BASE + Limb(r, 1)) \div d[1]
    ELSE (Limb(r, ld + 1) * BASE * BASE + Limb(r, ld) * BASE + Limb(r, ld - 1))
         \div (d[ld] * BASE + d[ld - 1] + 1)

QuoFrom(qhat, r, d) == QuoFix(qhat, NatSub(r, NatMulSmall(d, qhat)), d)

QuoDigit(r, d) == QuoFrom(QuoEstimate(r, d, Len(d)), r, d)

\* long division of a[lo..hi] by d, highest limb first, entered with the
\* remainder rin < d: <<quotient limbs of hi down to lo, remainder>>
RECURSIVE DivRange(_, _, _, _, _)
DivRange(a, d, lo, hi, rin) ==
    IF lo = hi
    THEN QuoDigit(NatTrim(<<a[lo]>> \o rin), d)
    ELSE LET mid == (lo + hi) \div 2
             H == DivRange(a, d, mid + 1, hi, rin)
             L == DivRange(a, d, lo, mid, H[2])
         IN << H[1] \o L[1], L[2] >>

SeqReverse(s) == [i \in 1..Len(s) |-> s[Len(s) + 1 - i]]

DivResult(qr) == << NatTrim(SeqReverse(qr[1])), qr[2] >>

\* <<a \div d, a % d>> for d # 0; the leading Len(d) - 1 limbs of a are below
\* d, and the long division starts with them as its remainder
NatDivMod(a, d) ==
    IF Len(a) < Len(d) THEN << <<>>, a >>
    ELSE DivResult(DivRange(a, d, 1, Len(a) - Len(d) + 1,
                            SubSeq(a, Len(a) - Len(d) + 2, Len(a))))

NatDiv(a, d) == NatDivMod(a, d)[1]
NatMod(a, d) == NatDivMod(a, d)[2]

\* Euclid's algorithm on st = <<a, b>>: GcdStep is one step, GcdIter(k, st)
\* takes up to 8^k steps, each block of steps evaluated before the next
GcdStep(st) == IF Len(st[2]) = 0 THEN st ELSE << st[2], NatMod(st[1], st[2]) >>

RECURSIVE GcdIter(_, _)
GcdIter(k, st) ==
    IF Len(st[2]) = 0 THEN st
    ELSE IF k = 0 THEN GcdStep(st)
    ELSE LET m1 == GcdIter(k - 1, st)
             m2 == GcdIter(k - 1, m1)
             m3 == GcdIter(k - 1, m2)
             m4 == GcdIter(k - 1, m3)
             m5 == GcdIter(k - 1, m4)
             m6 == GcdIter(k - 1, m5)
             m7 == GcdIter(k - 1, m6)
         IN IF /\ Evaluated(m1) /\ Evaluated(m2) /\ Evaluated(m3) /\ Evaluated(m4)
               /\ Evaluated(m5) /\ Evaluated(m6) /\ Evaluated(m7)
            THEN GcdIter(k - 1, m7) ELSE st

\* 8^4 steps are enough for numbers of 850 decimal digits
NatGcd(a, b) == GcdIter(4, <<a, b>>)[1]

\* with g the greatest common divisor of x and y: << x \div g, z \div g, g >>
DivBoth(x, z, g) == [j \in 1..3 |-> IF j = 3 THEN g ELSE NatDiv(IF j = 1 THEN x ELSE z, g)]
CancelGcd(x, y, z) == DivBoth(x, z, NatGcd(x, y))

\* a^k by repeated squaring
RECURSIVE NatPow(_, _)
NatPow(a, k) ==
    IF k = 0 THEN <<1>>
    ELSE LET h == NatPow(a, k \div 2)
         IN NatMul(NatMul(h, h), IF k % 2 = 0 THEN <<1>> ELSE a)

(***************************************************************************)
(* Signed integers of unbounded magnitude (num::BigInt, dashu IBig): a     *)
(* sign and a magnitude; zero is never negative.                           *)
(***************************************************************************)
IntMake(neg, mag) == [neg |-> neg /\ Len(mag) > 0, mag |-> mag]

\* BigInt::from of a machine integer
IntFrom(n) == IF n < 0 THEN IntMake(TRUE, NatFromInt(-n)) ELSE IntMake(FALSE, NatFromInt(n))

IntIsZero(a) == Len(a.mag) = 0

IntNeg(a) == IntMake(~a.neg, a.mag)

IntCmp(a, b) ==
    IF a.neg /\ ~b.neg THEN -1
    ELSE IF ~a.neg /\ b.neg THEN 1
    ELSE IF a.neg THEN NatCmp(b.mag, a.mag)
    ELSE NatCmp(a.mag, b.mag)

IntLess(a, b) == IntCmp(a, b) < 0
IntLeq(a, b) == IntCmp(a, b) <= 0

\* |big| - |small| with the sign of big
IntDiff(big, small) == IntMake(big.neg, NatSub(big.mag, small.mag))

IntAdd(a, b) ==
    IF a.neg = b.neg THEN IntMake(a.neg, NatAdd(a.mag, b.mag))
    ELSE IntDiff(IF NatLeq(b.mag, a.mag) THEN a ELSE b,
                 IF NatLeq(b.mag, a.mag) THEN b ELSE a)

IntSub(a, b) == IntAdd(a, IntNeg(b))

IntMul(a, b) == IntMake(a.neg # b.neg, NatMul(a.mag, b.mag))

IntPow(a, k) == IntMake(a.neg /\ k % 2 = 1, NatPow(a.mag, k))

(***************************************************************************)
(* Exact rationals (dashu RBig): a signed numerator and an unsigned        *)
(* denominator, always in lowest terms, the denominator never zero.  The   *)
(* operations cancel common factors before multiplying, so that every      *)
(* result is again in lowest terms.                                        *)
(***************************************************************************)
\* the fraction of sign neg and the parts c[1] / c[2]
RParts(neg, c) == [num |-> IntMake(neg, c[1]), den |-> c[2]]

\* RBig::from_parts for a nonzero denominator: the reduced fraction
\* (from_parts panics on a zero denominator: see FromPartsPanics)
RFromParts(num, den) == RParts(num.neg, CancelGcd(num.mag, den, den))

FromPartsPanics(den) == NatIsZero(den)

\* what a call leaves behind: a panic, or the value returned
Panics == [panics |-> TRUE, val |-> 0]
Returns(v) == [panics |-> FALSE, val |-> v]

\* RBig::from_parts on any denominator
from_parts(num, den) == IF FromPartsPanics(den) THEN Panics ELSE Returns(RFromParts(num, den))

\* RBig::from of an integer
RFromInt(n) == [num |-> IntFrom(n), den |-> <<1>>]

RIsZero(a) == IntIsZero(a.num)

\* a * b for a, b in lowest terms: c[1] is a.num and b.den, c[2] is b.num and
\* a.den, each pair with its common factor cancelled
RMulCancelled(neg, c) ==
    [num |-> IntMake(neg, NatMul(c[1][1], c[2][1])), den |-> NatMul(c[2][2], c[1][2])]

RMul(a, b) ==
    IF RIsZero(a) \/ RIsZero(b) THEN RFromInt(0)
    ELSE RMulCancelled(a.num.neg # b.num.neg,
                       [j \in 1..2 |-> CancelGcd(IF j = 1 THEN a.num.mag ELSE b.num.mag,
                                                 IF j = 1 THEN b.den ELSE a.den,
                                                 IF j = 1 THEN b.den ELSE a.den)])

\* the division panics on a zero divisor
RDivPanics(a, b) == RIsZero(b)

\* a / b for b # 0
RDiv(a, b) == RMul(a, [num |-> IntMake(b.num.neg, b.den), den |-> b.num.mag])

\* a + b for a, b in lowest terms, d = << a.den \div d1, b.den \div d1, d1 >>
\* with d1 the greatest common divisor of the denominators
RAddNumer(a, b, d) ==
    IntAdd(IntMul(a.num, IntMake(FALSE, d[2])), IntMul(b.num, IntMake(FALSE, d[1])))

\* t is the numerator over the common denominator, c is t and b.den with the
\* common factor of t and d1 cancelled
RAddReduced(t, d, c) == [num |-> IntMake(t.neg, c[1]), den |-> NatMul(d[1], c[2])]

RAddFrom(t, d, b) ==
    IF IntIsZero(t) THEN RFromInt(0)
    ELSE RAddReduced(t, d, CancelGcd(t.mag, d[3], b.den))

RAddCancelled(a, b, d) == RAddFrom(RAddNumer(a, b, d), d, b)

RAdd(a, b) == RAddCancelled(a, b, CancelGcd(a.den, b.den, b.den))

\* a^k for k >= 0
RPow(a, k) == [num |-> IntPow(a.num, k), den |-> NatPow(a.den, k)]

(***************************************************************************)
(* approx_sqrt: Newton's method, a fixed number of iterations.             *)
(***************************************************************************)
\* simplest_from_f32(2_f32): the rational 2
RTwo == RFromInt(2)

\* line 117's division panics when approx is zero
SqrtStepPanics(start, approx) == RDivPanics(start, approx)

\* the pass without its division by two
SqrtStepNoHalf(start, approx) == RAdd(approx, RDiv(start, approx))

\* the pass without its sum: (start / approx) / 2
SqrtStepNoSum(start, approx) == RDiv(RDiv(start, approx), RTwo)

\* one pass of the loop body: (approx + start / approx) / 2
SqrtStep(start, approx) == RDiv(RAdd(approx, RDiv(start, approx)), RTwo)

\* the value of approx after `iterations` passes (no pass panics for start > 0)
RECURSIVE SqrtLoop(_, _, _)
SqrtLoop(start, approx, iterations) ==
    IF iterations = 0 \/ ~Evaluated(approx) THEN approx
    ELSE SqrtLoop(start, SqrtStep(start, approx), iterations - 1)

approx_sqrt(number, iterations) == SqrtLoop(RFromInt(number), RFromInt(number), iterations)

(***************************************************************************)
(* Integer square root (UBig::nth_root(2)), by the long-hand method: two   *)
(* limbs of the radicand give one limb of the root.  A state is <<r, rem>>:*)
(* the root of the limbs read so far and what they leave over.             *)
(***************************************************************************)
\* the largest d with (t + d) * d <= v, for machine-sized t and v
SmallRootDigit(t, v) ==
    CHOOSE d \in 0..(BASE - 1) :
        /\ (t + d) * d <= v
        /\ (d = BASE - 1 \/ (t + d + 1) * (d + 1) > v)

\* the largest e <= d with (2 * r * BASE + e) * e <= rem1
RECURSIVE SqrtFixDown(_, _, _)
SqrtFixDown(r2, rem1, d) ==
    IF NatLeq(NatMulSmall(NatTrim(<<d>> \o r2), d), rem1) THEN d
    ELSE SqrtFixDown(r2, rem1, d - 1)

\* the next limb of the root r, r2 = 2 * r, from its estimate q
SqrtDigit(r, r2, rem1, q) ==
    IF Len(r) <= 1
    THEN SmallRootDigit(2 * BASE * Limb(r, 1), NatToInt(rem1))
    ELSE SqrtFixDown(r2, rem1, IF Len(q) >= 2 THEN BASE - 1 ELSE Limb(q, 1))

SqrtPairNext(r, r2, rem1, d) ==
    << NatTrim(<<d>> \o r), NatSub(rem1, NatMulSmall(NatTrim(<<d>> \o r2), d)) >>

SqrtPairFrom(r, r2, rem1) ==
    SqrtPairNext(r, r2, rem1, SqrtDigit(r, r2, rem1, NatDiv(rem1, <<0>> \o r2)))

SqrtPairStep(st, hi, lo) ==
    SqrtPairFrom(st[1], NatMulSmall(st[1], 2), NatTrim(<<lo, hi>> \o st[2]))

\* the pairs hi down to lo of a, entered in state st
RECURSIVE SqrtRange(_, _, _, _)
SqrtRange(a, lo, hi, st) ==
    IF ~Evaluated(st) THEN st
    ELSE IF lo = hi THEN SqrtPairStep(st, Limb(a, 2 * lo), Limb(a, 2 * lo - 1))
    ELSE SqrtRange(a, lo, (lo + hi) \div 2, SqrtRange(a, (lo + hi) \div 2 + 1, hi, st))

\* the largest r with r * r <= a
NatSqrt(a) ==
    IF Len(a) = 0 THEN <<>>
    ELSE SqrtRange(a, 1, (Len(a) + 1) \div 2, << <<>>, <<>> >>)[1]

NatSqr(a) == NatMul(a, a)

(***************************************************************************)
(* Decimal strings (to_str_radix(10), from_str_radix(.., 10)): a string is *)
(* the sequence of its character codes, '0' = 48 .. '9' = 57, '-' = 45.    *)
(***************************************************************************)
DecLen(t) == IF t >= 100 THEN 3 ELSE IF t >= 10 THEN 2 ELSE 1

Pow10(e) == IF e = 0 THEN 1 ELSE IF e = 1 THEN 10 ELSE 100

NatToStr(m) ==
    IF Len(m) = 0 THEN <<48>>
    ELSE LET total == DecLen(m[Len(m)]) + 3 * (Len(m) - 1)
         IN [j \in 1..total |->
                LET pos == total - j
                IN 48 + ((m[(pos \div 3) + 1] \div Pow10(pos % 3)) % 10)]

\* BigInt::to_str_radix(10)
IntToStr(v) == IF v.neg THEN <<45>> \o NatToStr(v.mag) ELSE NatToStr(v.mag)

IsDigits(str) == Len(str) > 0 /\ \A j \in 1..Len(str) : str[j] >= 48 /\ str[j] <= 57

StrToNat(str) ==
    LET D == Len(str)
        dig(pos) == IF pos < D THEN str[D - pos] - 48 ELSE 0
    IN NatTrim([k \in 1..((D + 2) \div 3) |->
                  dig(3 * (k - 1)) + 10 * dig(3 * (k - 1) + 1) + 100 * dig(3 * (k - 1) + 2)])

\* UBig::from_str_radix(str, 10) is an Err, and the unwrap() panics, unless str
\* is a string of digits
UBigParsePanics(str) == ~IsDigits(str)
UBigFromStr(str) == StrToNat(str)

\* IBig::from_str_radix(str, 10): an optional sign, then digits
IBigFromStr(str) ==
    IF str[1] = 45 THEN IntMake(TRUE, StrToNat(Tail(str))) ELSE IntMake(FALSE, StrToNat(str))

\* RBig::from_str_radix(str, 10) of an integer string
RBigFromStr(str) == [num |-> IBigFromStr(str), den |-> <<1>>]

\* RBig's to_string(): "numerator/denominator", the numerator alone when the
\* denominator is 1; '/' = 47
RToStr(r) ==
    IF r.den = <<1>> THEN IntToStr(r.num)
    ELSE IntToStr(r.num) \o <<47>> \o NatToStr(r.den)

(***************************************************************************)
(* factorials.rs                                                           *)
(***************************************************************************)
\* the product taken one factor short: (n - 1) * factorial(n - 1)
RECURSIVE factorial_short(_)
factorial_short(n) ==
    IF IntLeq(n, IntFrom(1)) THEN IntFrom(1)
    ELSE IntMul(IntSub(n, IntFrom(1)), factorial_short(IntSub(n, IntFrom(1))))

RECURSIVE factorial(_)
factorial(n) ==
    IF IntLeq(n, IntFrom(1)) THEN IntFrom(1)
    ELSE IntMul(n, factorial(IntSub(n, IntFrom(1))))

\* the limit of i128 in the place of that of u128
I128Modulus == NatPow(<<2>>, 127)

\* u128: the values are below 2^128
U128Modulus == NatPow(<<2>>, 128)

\* (lo..=hi).product() as an unbounded natural, 1 on the empty range; the
\* range is multiplied by halves, the product being the same in any order
RECURSIVE RangeProduct(_, _)
RangeProduct(lo, hi) ==
    IF lo > hi THEN <<1>>
    ELSE IF lo = hi THEN NatFromInt(lo)
    ELSE NatMul(RangeProduct(lo, (lo + hi) \div 2),
                RangeProduct((lo + hi) \div 2 + 1, hi))

\* the product that skips its last factor
factorial_u128_short(m) == IF m \in {0, 1} THEN <<1>> ELSE RangeProduct(2, m - 1)

\* factorial_u128(m) before the limit of u128 applies: 0 | 1 => 1,
\* _ => (2..=m).product()
factorial_u128(m) == IF m \in {0, 1} THEN <<1>> ELSE RangeProduct(2, m)

\* a product of u128 overflows when a partial product, and so the whole
\* product, reaches 2^128
U128Overflows(p) == ~NatLess(p, U128Modulus)

\* the value a build without overflow checks keeps
U128Wrap(p) == NatMod(p, U128Modulus)

(***************************************************************************)
(* sequences.rs                                                            *)
(***************************************************************************)
Last(s) == s[Len(s)]

\* last_chunk::<k>() is None, and the unwrap() panics, on fewer than k elements
LastChunkPanics(s, k) == Len(s) < k

\* the last element added to itself
lucas_new_doubled(p) == IntAdd(p[Len(p)], p[Len(p)])

\* the loop body of generate_lucas_sequence: the sum of the last two elements
lucas_new(p) == IntAdd(p[Len(p) - 1], p[Len(p)])

lucas_seed == << IntFrom(2), IntFrom(1) >>

fib_rec(s) == IntAdd(s[Len(s) - 1], s[Len(s)])

fib_seed == << IntFrom(0), IntFrom(1) >>

\* fibonacci_sequence's loop from the state (s, k): push fib_rec while k < m
RECURSIVE FibLoop(_, _, _)
FibLoop(s, k, m) ==
    IF IntLess(k, m) /\ Evaluated(s)
    THEN FibLoop(Append(s, fib_rec(s)), IntAdd(k, IntFrom(1)), m)
    ELSE s

fibonacci_sequence(m) == FibLoop(fib_seed, IntFrom(2), m)

\* the sum without the rabbits that die
dying_rec_undying(s) == IntAdd(s[Len(s)], s[Len(s) - 1])

\* last_13[12] + last_13[11] - last_13[0]
dying_rec(s) == IntSub(IntAdd(s[Len(s)], s[Len(s) - 1]), s[Len(s) - 12])

decide_dying_rabbit(k, s) ==
    IF IntCmp(k, IntFrom(0)) = 0 THEN IntFrom(1)
    ELSE IF IntLess(k, IntFrom(13)) THEN Last(fibonacci_sequence(IntAdd(k, IntFrom(1))))
    ELSE dying_rec(s)

(***************************************************************************)
(* constants.rs                                                            *)
(***************************************************************************)
\* inverse: from_parts(denominator, sqrt(numerator^2))
InverseDenom(frac) == NatSqrt(NatSqr(frac.num.mag))

\* the fraction built without from_parts' check of the denominator
inverse_unchecked(frac) == Returns(RFromParts(IntMake(FALSE, frac.den), InverseDenom(frac)))

inverse(frac) == from_parts(IntMake(FALSE, frac.den), InverseDenom(frac))

\* A without its factor 2
PiANoTwo == RDiv(approx_sqrt(2, 10), RFromInt(9801))

\* A = (2 * approx_sqrt(2, 10)) / 9801
PiA == RDiv(RMul(RFromInt(2), approx_sqrt(2, 10)), RFromInt(9801))

PiSumInit == RFromInt(0)

b_top(k) == IBigFromStr(IntToStr(IntMul(factorial(IntFrom(4 * k)), IntFrom(1103 + 26390 * k))))

b_bot(k) ==
    UBigFromStr(IntToStr(IntMul(IntPow(IntFrom(4), 4 * k),
                                IntPow(factorial(IntFrom(k)), 4))))

b_n(k) == RFromParts(b_top(k), b_bot(k))

c_n_og(k) ==
    RMul(RPow(RFromInt(99), 4 * k),
         RBigFromStr(IntToStr(IntPow(factorial(IntFrom(k)), 4))))

\* the swap with the squared numerator left unrooted
c_n_from_no_root(og) == RFromParts(IntMake(FALSE, og.den), NatSqr(og.num.mag))

\* from_parts(c_n_og.denominator(), sqrt(c_n_og.numerator()^2)); c_n_og is not 0
c_n_from(og) == RFromParts(IntMake(FALSE, og.den), NatSqrt(NatSqr(og.num.mag)))

c_n(k) == c_n_from(c_n_og(k))

\* the term added to sum in the pass with counter k
PiTerm(k) == RMul(b_n(k), c_n(k))

\* sum after the passes with the counters 0 .. m - 1
RECURSIVE PiSumAfter(_)
PiSumAfter(m) == IF m = 0 THEN PiSumInit ELSE RAdd(PiSumAfter(m - 1), PiTerm(m - 1))

\* the outcome of estimate_pi_ratio(m), m >= 0: inverse(A * sum)
estimate_pi_ratio(m) == inverse(RMul(PiA, PiSumAfter(m)))

(***************************************************************************)
(* primes.rs, on machine integers.  The test prime as f32 > sqrt(n as f32)  *)
(* is prime * prime > n, which is what the f32 arithmetic decides for every *)
(* n below 2^23 and for the small primes against i32::MAX; the square root  *)
(* of a negative n is NaN, and no number is above NaN.                      *)
(***************************************************************************)
\* for prime in &p, from the element j on: false at a divisor, true at a
\* prime above the square root, false at the end of p
\* the loop whose limit test also passes for a negative n
RECURSIVE PrimeLoopNoNaN(_, _, _)
PrimeLoopNoNaN(m, p, j) ==
    IF j > Len(p) THEN FALSE
    ELSE IF m % p[j] = 0 THEN FALSE
    ELSE IF p[j] * p[j] > m THEN TRUE
    ELSE PrimeLoopNoNaN(m, p, j + 1)

RECURSIVE PrimeLoop(_, _, _)
PrimeLoop(m, p, j) ==
    IF j > Len(p) THEN FALSE
    ELSE IF m % p[j] = 0 THEN FALSE
    ELSE IF m >= 0 /\ p[j] * p[j] > m THEN TRUE
    ELSE PrimeLoop(m, p, j + 1)

is_prime_list(m, p) == PrimeLoop(m, p, 1)

\* the loop that also takes n = limit
RECURSIVE GenLoopInclusive(_, _, _)
GenLoopInclusive(m, limit, p) ==
    IF m <= limit
    THEN GenLoopInclusive(m + 2, limit, IF is_prime_list(m, p) THEN Append(p, m) ELSE p)
    ELSE p

\* generate_primes' loop from the state (m, p): while n < limit
RECURSIVE GenLoop(_, _, _)
GenLoop(m, limit, p) ==
    IF m < limit
    THEN GenLoop(m + 2, limit, IF is_prime_list(m, p) THEN Append(p, m) ELSE p)
    ELSE p

generate_primes(limit) ==
    IF limit < 0 THEN Panics ELSE Returns(GenLoop(5, limit, <<2, 3>>))

\* is_prime without its first test, n == 2
is_prime_no_two(m) ==
    IF m <= 1 THEN FALSE
    ELSE is_prime_list(m, generate_primes(m \div 2 + 1).val)

\* n / 2 + 1 is not negative when n > 1, so generate_primes does not panic
is_prime(m) ==
    IF m = 2 THEN TRUE
    ELSE IF m <= 1 THEN FALSE
    ELSE is_prime_list(m, generate_primes(m \div 2 + 1).val)

\* Rust's / and % on integers, for a divisor y > 0: the quotient is rounded
\* towards zero and the remainder has the sign of x
RustDiv(x, y) == IF x >= 0 THEN x \div y ELSE -((-x) \div y)
RustRem(x, y) == IF x >= 0 THEN x % y ELSE -((-x) % y)

\* is_prime_lazy's loop from i = j: while i <= n / 2, false at a divisor
RECURSIVE LazyLoop(_, _)
LazyLoop(m, j) ==
    IF j <= RustDiv(m, 2)
    THEN IF RustRem(m, j) = 0 THEN FALSE ELSE LazyLoop(m, j + 2)
    ELSE TRUE

is_prime_lazy(m) ==
    IF m = 1 THEN FALSE
    ELSE IF m = 2 THEN TRUE
    ELSE IF RustRem(m, 2) = 0 THEN FALSE
    ELSE LazyLoop(m, 3)

\* usize::ilog2, the floor of the logarithm to base 2, of x >= 1
RECURSIVE ILog2(_)
ILog2(x) == IF x <= 1 THEN 0 ELSE 1 + ILog2(x \div 2)

\* is_prime_lazy(m) && is_prime_lazy((m + 1).to_usize().unwrap().ilog2()):
\* to_usize() is None for a negative number and ilog2 panics on 0
is_mersenne_prime(m) ==
    IF ~is_prime_lazy(m) THEN Returns(FALSE)
    ELSE IF m + 1 <= 0 THEN Panics
    ELSE Returns(is_prime_lazy(ILog2(m + 1)))

(***************************************************************************)
(* perfect_numbers.rs, on machine integers                                 *)
(***************************************************************************)
\* d.sort(): the elements in ascending order
RECURSIVE VecSort(_)
VecSort(s) ==
    IF Len(s) = 0 THEN s
    ELSE LET t == VecSort(Tail(s))
             k == Cardinality({j \in 1..Len(t) : t[j] < Head(s)})
         IN SubSeq(t, 1, k) \o <<Head(s)>> \o SubSeq(t, k + 1, Len(t))

\* d.dedup(): of equal neighbours the first is kept
RECURSIVE VecDedup(_)
VecDedup(s) ==
    IF Len(s) <= 1 THEN s
    ELSE IF s[Len(s)] = s[Len(s) - 1] THEN VecDedup(SubSeq(s, 1, Len(s) - 1))
    ELSE Append(VecDedup(SubSeq(s, 1, Len(s) - 1)), s[Len(s)])

\* divisors' loop from the state (j, d), for m >= 0: while i < n / 2, push i
\* and n / i when i divides n
RECURSIVE DivisorLoop(_, _, _)
DivisorLoop(m, j, d) ==
    IF j < m \div 2
    THEN DivisorLoop(m, j + 1, IF m % j = 0 THEN d \o <<j, m \div j>> ELSE d)
    ELSE d

divisors(m) == VecDedup(VecSort(DivisorLoop(m, 1, <<>>)))

\* the loop sum += divisors[i] over the whole vector
RECURSIVE VecSum(_)
VecSum(s) == IF Len(s) = 0 THEN 0 ELSE VecSum(SubSeq(s, 1, Len(s) - 1)) + s[Len(s)]

\* divisors.pop() drops the last element, and nothing of an empty vector
VecPop(s) == IF Len(s) = 0 THEN s ELSE SubSeq(s, 1, Len(s) - 1)

is_perfect_number(m) == VecSum(VecPop(divisors(m))) = m

\* for prime in primes, from the element j on: 2^(prime - 1) * (2^prime - 1)
\* is pushed when is_prime(2^prime - 1); for the primes below 17 the powers
\* and the product stay within 32 bits
RECURSIVE EvenPerfectLoop(_, _, _)
EvenPerfectLoop(primes, j, out) ==
    IF j > Len(primes) THEN out
    ELSE EvenPerfectLoop(primes, j + 1,
             IF is_prime(2^primes[j] - 1)
             THEN Append(out, 2^(primes[j] - 1) * (2^primes[j] - 1))
             ELSE out)

\* the panic of generate_primes(n), n < 0, ends the call
generate_even_perfect_numbers(m) ==
    IF generate_primes(m).panics THEN Panics
    ELSE Returns(EvenPerfectLoop(generate_primes(m).val, 1, <<>>))

(***************************************************************************)
(* The library as a state machine: a caller invokes one function at a      *)
(* time; a loop of the function is one step per pass.                      *)
(***************************************************************************)
\* bounds of the inputs drawn by the calls
MaxN == 16
MaxFact == 10
MaxTerms == 3
MaxNumber == 4
MaxIter == 6
MaxFrac == 9
MaxList == 36
MaxGolden == 100
MaxDet == 14
MaxPrime == 64
MaxDiv == 36
MaxPerfect == 10
MaxBigFact == 20

\* i32::MAX and i32::MIN
I32Max == 2147483647
I32Min == -I32Max - 1

VARIABLES
    fn,      \* the function called last, "none" before the first call
    pc,      \* "idle", "loop" (at the loop head), "done" (returned), "panic"
    n,       \* the argument of the call
    i,       \* the loop counter
    nums,    \* the vector under construction (p, nums, lucas)
    sum,     \* estimate_pi_ratio's accumulator
    approx,  \* approx_sqrt's iterate
    a,       \* estimate_pi_ratio's factor A
    ret      \* the value returned, when pc = "done"

vars == <<fn, pc, n, i, nums, sum, approx, a, ret>>

RZero == RFromInt(0)

Init ==
    /\ fn = "none"
    /\ pc = "idle"
    /\ n = 0
    /\ i = 0
    /\ nums = <<>>
    /\ sum = RZero
    /\ approx = RZero
    /\ a = RZero
    /\ ret = 0

\* the end of a call with the outcome out
Finish(out) ==
    /\ pc' = IF out.panics THEN "panic" ELSE "done"
    /\ ret' = IF out.panics THEN ret ELSE out.val

\* the caller drops the result; the next call starts from fresh locals
Reset ==
    /\ pc \in {"done", "panic"}
    /\ fn' = "none"
    /\ pc' = "idle"
    /\ n' = 0
    /\ i' = 0
    /\ nums' = <<>>
    /\ sum' = RZero
    /\ approx' = RZero
    /\ a' = RZero
    /\ ret' = 0

---------------------------------------------------------------------------
\* lucas_sequence(n), and generate_lucas_sequence's loop
call_lucas_sequence(k) ==
    /\ pc = "idle"
    /\ fn' = "lucas_sequence"
    /\ n' = IntFrom(k)
    /\ IF k = 0 THEN pc' = "done" /\ ret' = <<>> /\ UNCHANGED <<i, nums>>
       ELSE IF k = 1 THEN pc' = "done" /\ ret' = <<IntFrom(2)>> /\ UNCHANGED <<i, nums>>
       ELSE pc' = "loop" /\ nums' = lucas_seed /\ i' = IntFrom(2) /\ UNCHANGED ret
    /\ UNCHANGED <<sum, approx, a>>

generate_lucas_step_in_front ==
    /\ pc = "loop"
    /\ fn \in {"lucas_sequence", "golden_ratio"}
    /\ IntLess(i, n)
    /\ IF LastChunkPanics(nums, 2)
       THEN pc' = "panic" /\ UNCHANGED <<nums, i>>
       ELSE nums' = <<lucas_new(nums)>> \o nums /\ i' = IntAdd(i, IntFrom(1)) /\ UNCHANGED pc
    /\ UNCHANGED <<fn, n, sum, approx, a, ret>>

generate_lucas_step ==
    /\ pc = "loop"
    /\ fn \in {"lucas_sequence", "golden_ratio"}
    /\ IntLess(i, n)
    /\ IF LastChunkPanics(nums, 2)
       THEN pc' = "panic" /\ UNCHANGED <<nums, i>>
       ELSE nums' = Append(nums, lucas_new(nums)) /\ i' = IntAdd(i, IntFrom(1)) /\ UNCHANGED pc
    /\ UNCHANGED <<fn, n, sum, approx, a, ret>>

generate_lucas_return ==
    /\ pc = "loop"
    /\ fn = "lucas_sequence"
    /\ ~IntLess(i, n)
    /\ pc' = "done"
    /\ ret' = nums
    /\ UNCHANGED <<fn, n, i, nums, sum, approx, a>>

---------------------------------------------------------------------------
\* fibonacci_sequence(n) on a vector kept from the call before
call_fibonacci_sequence_stale(k) ==
    /\ pc = "idle"
    /\ fn' = "fibonacci_sequence"
    /\ n' = IntFrom(k)
    /\ pc' = "loop"
    /\ i' = IntFrom(2)
    /\ nums' = IF Len(nums) >= 2 THEN nums ELSE fib_seed
    /\ UNCHANGED <<sum, approx, a, ret>>

\* fibonacci_sequence(n)
call_fibonacci_sequence(k) ==
    /\ pc = "idle"
    /\ fn' = "fibonacci_sequence"
    /\ n' = IntFrom(k)
    /\ pc' = "loop"
    /\ i' = IntFrom(2)
    /\ nums' = fib_seed
    /\ UNCHANGED <<sum, approx, a, ret>>

fibonacci_step ==
    /\ pc = "loop"
    /\ fn = "fibonacci_sequence"
    /\ IntLess(i, n)
    /\ IF LastChunkPanics(nums, 2)
       THEN pc' = "panic" /\ UNCHANGED <<nums, i>>
       ELSE nums' = Append(nums, fib_rec(nums)) /\ i' = IntAdd(i, IntFrom(1)) /\ UNCHANGED pc
    /\ UNCHANGED <<fn, n, sum, approx, a, ret>>

fibonacci_return ==
    /\ pc = "loop"
    /\ fn = "fibonacci_sequence"
    /\ ~IntLess(i, n)
    /\ pc' = "done"
    /\ ret' = nums
    /\ UNCHANGED <<fn, n, i, nums, sum, approx, a>>

---------------------------------------------------------------------------
\* dying_rabbits_sequence(n)
call_dying_rabbits_sequence(k) ==
    /\ pc = "idle"
    /\ fn' = "dying_rabbits_sequence"
    /\ n' = IntFrom(k)
    /\ pc' = "loop"
    /\ i' = IntFrom(0)
    /\ nums' = <<>>
    /\ UNCHANGED <<sum, approx, a, ret>>

dying_rabbits_step ==
    /\ pc = "loop"
    /\ fn = "dying_rabbits_sequence"
    /\ IntLess(i, n)
    /\ IF ~IntLess(i, IntFrom(13)) /\ LastChunkPanics(nums, 13)
       THEN pc' = "panic" /\ UNCHANGED <<nums, i>>
       ELSE /\ nums' = Append(nums, decide_dying_rabbit(i, nums))
            /\ i' = IntAdd(i, IntFrom(1))
            /\ UNCHANGED pc
    /\ UNCHANGED <<fn, n, sum, approx, a, ret>>

dying_rabbits_return ==
    /\ pc = "loop"
    /\ fn = "dying_rabbits_sequence"
    /\ ~IntLess(i, n)
    /\ pc' = "done"
    /\ ret' = nums
    /\ UNCHANGED <<fn, n, i, nums, sum, approx, a>>

---------------------------------------------------------------------------
\* factorials::factorial(n)
call_factorial(k) ==
    /\ pc = "idle"
    /\ fn' = "factorial"
    /\ n' = IntFrom(k)
    /\ pc' = "done"
    /\ ret' = factorial(IntFrom(k))
    /\ UNCHANGED <<i, nums, sum, approx, a>>

---------------------------------------------------------------------------
\* factorials::factorial_list(n): f = vec![], i = 1
call_factorial_list(k) ==
    /\ pc = "idle"
    /\ fn' = "factorial_list"
    /\ n' = k
    /\ i' = 1
    /\ nums' = <<>>
    /\ pc' = "loop"
    /\ UNCHANGED <<sum, approx, a, ret>>

\* factorials::factorial_u128(n), and factorial::factorial(n) of the same
\* body: the product of 2..=n, which beyond u128 panics in a build with
\* overflow checks and wraps in one without
call_factorial_u128(k) ==
    /\ pc = "idle"
    /\ fn' = "factorial_u128"
    /\ n' = k
    /\ \/ /\ ~U128Overflows(factorial_u128(k))
          /\ pc' = "done"
          /\ ret' = factorial_u128(k)
       \/ /\ U128Overflows(factorial_u128(k))
          /\ pc' = "panic"
          /\ UNCHANGED ret
       \/ /\ U128Overflows(factorial_u128(k))
          /\ pc' = "done"
          /\ ret' = U128Wrap(factorial_u128(k))
    /\ UNCHANGED <<i, nums, sum, approx, a>>

\* f.push(factorial_u128(i)) for the product p of 2..=i; a product beyond
\* u128 panics in a build with overflow checks and wraps in one without
factorial_list_push(p) ==
    \/ /\ ~U128Overflows(p)
       /\ nums' = Append(nums, p)
       /\ i' = i + 1
       /\ UNCHANGED pc
    \/ /\ U128Overflows(p)
       /\ pc' = "panic"
       /\ UNCHANGED <<nums, i>>
    \/ /\ U128Overflows(p)
       /\ nums' = Append(nums, U128Wrap(p))
       /\ i' = i + 1
       /\ UNCHANGED pc

\* one pass of while i <= n
factorial_list_step ==
    /\ pc = "loop"
    /\ fn = "factorial_list"
    /\ i <= n
    /\ factorial_list_push(factorial_u128(i))
    /\ UNCHANGED <<fn, n, sum, approx, a, ret>>

factorial_list_return ==
    /\ pc = "loop"
    /\ fn = "factorial_list"
    /\ ~(i <= n)
    /\ pc' = "done"
    /\ ret' = nums
    /\ UNCHANGED <<fn, n, i, nums, sum, approx, a>>

---------------------------------------------------------------------------
\* approx_sqrt(number, iterations); start is RBig::from(number)
call_approx_sqrt(number, iterations) ==
    /\ pc = "idle"
    /\ fn' = "approx_sqrt"
    /\ n' = [number |-> number, iterations |-> iterations]
    /\ pc' = "loop"
    /\ i' = 0
    /\ approx' = RFromInt(number)
    /\ UNCHANGED <<nums, sum, a, ret>>

approx_sqrt_step ==
    /\ pc = "loop"
    /\ fn = "approx_sqrt"
    /\ i < n.iterations
    /\ IF SqrtStepPanics(RFromInt(n.number), approx)
       THEN pc' = "panic" /\ UNCHANGED <<approx, i>>
       ELSE approx' = SqrtStep(RFromInt(n.number), approx) /\ i' = i + 1 /\ UNCHANGED pc
    /\ UNCHANGED <<fn, n, nums, sum, a, ret>>

approx_sqrt_return ==
    /\ pc = "loop"
    /\ fn = "approx_sqrt"
    /\ ~(i < n.iterations)
    /\ pc' = "done"
    /\ ret' = approx
    /\ UNCHANGED <<fn, n, i, nums, sum, approx, a>>

---------------------------------------------------------------------------
\* estimate_pi_ratio(n): the counter type T holds every n drawn here, so that
\* T::from_usize(i).unwrap() does not panic
call_estimate_pi_ratio(k) ==
    /\ pc = "idle"
    /\ fn' = "estimate_pi_ratio"
    /\ n' = k
    /\ pc' = "loop"
    /\ a' = PiA
    /\ i' = 0
    /\ sum' = PiSumInit
    /\ UNCHANGED <<nums, approx, ret>>

estimate_pi_step_no_add ==
    /\ pc = "loop"
    /\ fn = "estimate_pi_ratio"
    /\ i < n
    /\ i' = i + 1
    /\ UNCHANGED <<fn, pc, n, nums, sum, approx, a, ret>>

estimate_pi_step ==
    /\ pc = "loop"
    /\ fn = "estimate_pi_ratio"
    /\ i < n
    /\ sum' = RAdd(sum, PiTerm(i))
    /\ i' = i + 1
    /\ UNCHANGED <<fn, pc, n, nums, approx, a, ret>>

estimate_pi_return ==
    /\ pc = "loop"
    /\ fn = "estimate_pi_ratio"
    /\ ~(i < n)
    /\ Finish(inverse(RMul(a, sum)))
    /\ UNCHANGED <<fn, n, i, nums, sum, approx, a>>

---------------------------------------------------------------------------
\* golden_ratio(n): zero below 2, else the last two of lucas_sequence(n)
call_golden_ratio(k) ==
    /\ pc = "idle"
    /\ fn' = "golden_ratio"
    /\ n' = IntFrom(k)
    /\ IF IntLess(IntFrom(k), IntFrom(2))
       THEN /\ pc' = "done"
            /\ ret' = [num |-> IntFrom(0), den |-> <<1>>]
            /\ UNCHANGED <<i, nums>>
       ELSE \* lucas_sequence(n) with n >= 2 is generate_lucas_sequence(n)
            /\ pc' = "loop"
            /\ nums' = lucas_seed
            /\ i' = IntFrom(2)
            /\ UNCHANGED ret
    /\ UNCHANGED <<sum, approx, a>>

\* lucas.pop() twice, then from_parts of the two through their decimal strings
golden_numer(lucas) == IBigFromStr(IntToStr(lucas[Len(lucas)]))
\* the denominator read from the element that was popped first
golden_denom_same(lucas) == UBigFromStr(IntToStr(lucas[Len(lucas)]))

golden_denom(lucas) == UBigFromStr(IntToStr(lucas[Len(lucas) - 1]))

\* the two popped elements taken in the other order
golden_parts_swapped(lucas) ==
    IF Len(lucas) < 2 \/ UBigParsePanics(IntToStr(lucas[Len(lucas)])) THEN Panics
    ELSE from_parts(IBigFromStr(IntToStr(lucas[Len(lucas) - 1])),
                    UBigFromStr(IntToStr(lucas[Len(lucas)])))

golden_parts(lucas) ==
    IF Len(lucas) < 2 \/ UBigParsePanics(IntToStr(lucas[Len(lucas) - 1])) THEN Panics
    ELSE from_parts(golden_numer(lucas), golden_denom(lucas))

golden_ratio_return ==
    /\ pc = "loop"
    /\ fn = "golden_ratio"
    /\ ~IntLess(i, n)
    /\ Finish(golden_parts(nums))
    /\ UNCHANGED <<fn, n, i, nums, sum, approx, a>>

---------------------------------------------------------------------------
\* primes::is_prime(n)
call_is_prime(k) ==
    /\ pc = "idle"
    /\ fn' = "is_prime"
    /\ n' = k
    /\ pc' = "done"
    /\ ret' = is_prime(k)
    /\ UNCHANGED <<i, nums, sum, approx, a>>

\* primes::is_prime_list(n, p)
call_is_prime_list(k, p) ==
    /\ pc = "idle"
    /\ fn' = "is_prime_list"
    /\ n' = [number |-> k, primes |-> p]
    /\ pc' = "done"
    /\ ret' = is_prime_list(k, p)
    /\ UNCHANGED <<i, nums, sum, approx, a>>

\* primes::generate_primes(limit)
call_generate_primes(k) ==
    /\ pc = "idle"
    /\ fn' = "generate_primes"
    /\ n' = k
    /\ Finish(generate_primes(k))
    /\ UNCHANGED <<i, nums, sum, approx, a>>

---------------------------------------------------------------------------
\* perfect_numbers::divisors(n)
call_divisors(k) ==
    /\ pc = "idle"
    /\ fn' = "divisors"
    /\ n' = k
    /\ pc' = "done"
    /\ ret' = divisors(k)
    /\ UNCHANGED <<i, nums, sum, approx, a>>

\* perfect_numbers::is_perfect_number(n)
call_is_perfect_number(k) ==
    /\ pc = "idle"
    /\ fn' = "is_perfect_number"
    /\ n' = k
    /\ pc' = "done"
    /\ ret' = is_perfect_number(k)
    /\ UNCHANGED <<i, nums, sum, approx, a>>

\* primes::is_prime_lazy(n)
call_is_prime_lazy(k) ==
    /\ pc = "idle"
    /\ fn' = "is_prime_lazy"
    /\ n' = k
    /\ pc' = "done"
    /\ ret' = is_prime_lazy(k)
    /\ UNCHANGED <<i, nums, sum, approx, a>>

\* primes::is_mersenne_prime(m)
call_is_mersenne_prime(k) ==
    /\ pc = "idle"
    /\ fn' = "is_mersenne_prime"
    /\ n' = k
    /\ Finish(is_mersenne_prime(k))
    /\ UNCHANGED <<i, nums, sum, approx, a>>

\* perfect_numbers::generate_even_perfect_numbers(n)
call_generate_even_perfect_numbers(k) ==
    /\ pc = "idle"
    /\ fn' = "generate_even_perfect_numbers"
    /\ n' = k
    /\ Finish(generate_even_perfect_numbers(k))
    /\ UNCHANGED <<i, nums, sum, approx, a>>

---------------------------------------------------------------------------
\* inverse(frac), the private helper, on a fraction of its own
call_inverse(frac) ==
    /\ pc = "idle"
    /\ fn' = "inverse"
    /\ n' = frac
    /\ Finish(inverse(frac))
    /\ UNCHANGED <<i, nums, sum, approx, a>>

---------------------------------------------------------------------------
Next ==
    \/ \E k \in -2..MaxN : call_lucas_sequence(k)
    \/ generate_lucas_step
    \/ generate_lucas_return
    \/ \E k \in -2..MaxN : call_fibonacci_sequence(k)
    \/ fibonacci_step
    \/ fibonacci_return
    \/ \E k \in -2..MaxN : call_dying_rabbits_sequence(k)
    \/ dying_rabbits_step
    \/ dying_rabbits_return
    \/ \E k \in -2..MaxFact : call_factorial(k)
    \/ \E k \in 0..MaxList : call_factorial_u128(k)
    \/ \E k \in 0..MaxList : call_factorial_list(k)
    \/ factorial_list_step
    \/ factorial_list_return
    \/ \E number \in -2..MaxNumber, iterations \in 0..MaxIter :
          call_approx_sqrt(number, iterations)
    \/ approx_sqrt_step
    \/ approx_sqrt_return
    \/ \E k \in -1..MaxTerms : call_estimate_pi_ratio(k)
    \/ estimate_pi_step
    \/ estimate_pi_return
    \/ \E k \in -2..MaxN : call_golden_ratio(k)
    \/ golden_ratio_return
    \/ \E k \in -3..MaxPrime : call_is_prime(k)
    \/ \E k \in -3..MaxPrime : call_generate_primes(k)
    \/ \E k \in (-12..MaxPrime) \cup {I32Max, I32Min},
          p \in {<<2, 3, 5, 7>>} \cup {generate_primes(limit).val : limit \in 0..MaxPrime} :
          call_is_prime_list(k, p)
    \/ \E k \in 0..MaxDiv : call_divisors(k)
    \/ \E k \in -3..MaxDiv : call_is_perfect_number(k)
    \/ \E k \in -1..MaxPerfect : call_generate_even_perfect_numbers(k)
    \/ \E k \in -3..MaxPrime : call_is_prime_lazy(k)
    \/ \E k \in -3..MaxPrime : call_is_mersenne_prime(k)
    \/ Reset

Spec == Init /\ [][Next]_vars

\* the helper inverse alone, on every fraction of small numerator and denominator
InverseNext ==
    \/ \E num \in -MaxFrac..MaxFrac, den \in 1..MaxFrac :
          call_inverse(RFromParts(IntFrom(num), NatFromInt(den)))
    \/ Reset

InverseSpec == Init /\ [][InverseNext]_vars

\* golden_ratio alone, up to the large arguments
GoldenNext ==
    \/ \E k \in -2..MaxGolden : call_golden_ratio(k)
    \/ generate_lucas_step
    \/ golden_ratio_return
    \/ Reset

GoldenSpec == Init /\ [][GoldenNext]_vars

\* a call returns to its caller and nothing is cleared: the next call finds
\* what the calls before it left in i, nums and ret
ReturnToCaller ==
    /\ pc \in {"done", "panic"}
    /\ pc' = "idle"
    /\ UNCHANGED <<fn, n, i, nums, sum, approx, a, ret>>

\* the generators called again and again, in any order, with calls of
\* factorial between them
DetNext ==
    \/ \E k \in -1..MaxDet : call_lucas_sequence(k)
    \/ generate_lucas_step
    \/ generate_lucas_return
    \/ \E k \in -1..MaxDet : call_fibonacci_sequence(k)
    \/ fibonacci_step
    \/ fibonacci_return
    \/ \E k \in -1..MaxDet : call_dying_rabbits_sequence(k)
    \/ dying_rabbits_step
    \/ dying_rabbits_return
    \/ \E k \in 0..MaxDet : call_factorial_list(k)
    \/ factorial_list_step
    \/ factorial_list_return
    \/ \E k \in 0..MaxDet : call_factorial(k)
    \/ ReturnToCaller

DetSpec == Init /\ [][DetNext]_vars

(***************************************************************************)
(* The properties.  References are computed on TLC's own integers, or on   *)
(* unreduced fractions, apart from the arithmetic of the functions.        *)
(***************************************************************************)
\* a big integer of magnitude below 2^31 as an integer, and a vector of them
\* as a sequence of integers
IntToNative(v) == IF v.neg THEN -NatToInt(v.mag) ELSE NatToInt(v.mag)

NativeSeq(s) == [j \in 1..Len(s) |-> IntToNative(s[j])]

\* <<F(j), F(j + 1)>> of the Fibonacci numbers and <<L(j), L(j + 1)>> of the
\* Lucas numbers
RECURSIVE FibPair(_)
FibPair(j) ==
    IF j = 0 THEN <<0, 1>> ELSE LET p == FibPair(j - 1) IN <<p[2], p[1] + p[2]>>

RECURSIVE LucasPair(_)
LucasPair(j) ==
    IF j = 0 THEN <<2, 1>> ELSE LET p == LucasPair(j - 1) IN <<p[2], p[1] + p[2]>>

FibRef(j) == FibPair(j)[1]
LucasRef(j) == LucasPair(j)[1]

RECURSIVE FactRef(_)
FactRef(m) == IF m <= 1 THEN 1 ELSE m * FactRef(m - 1)

\* the fraction r equals p / q, for integers p and q > 0
REqualsNative(r, p, q) ==
    /\ NatToInt(r.den) > 0
    /\ IntToNative(r.num) * q = p * NatToInt(r.den)

\* the true reciprocal of a nonzero fraction: the parts swapped, the sign kept
Reciprocal(x) == [num |-> IntMake(x.num.neg, x.den), den |-> x.num.mag]

\* term(k) = (4k)! (1103 + 26390 k) / (4^(4k) (k!)^4 99^(4k)) of the series
SeriesTerm(k) ==
    RFromParts(IntMul(factorial(IntFrom(4 * k)), IntFrom(1103 + 26390 * k)),
               NatMul(NatMul(NatPow(<<4>>, 4 * k), NatPow(factorial(IntFrom(k)).mag, 4)),
                      NatPow(<<99>>, 4 * k)))

\* term(0) + ... + term(m - 1)
RECURSIVE SeriesSum(_)
SeriesSum(m) == IF m = 0 THEN RFromInt(0) ELSE RAdd(SeriesSum(m - 1), SeriesTerm(m - 1))

\* C1: estimate_pi_ratio(n_terms), n_terms >= 1, returns the reciprocal of
\* A * (term(0) + ... + term(n_terms - 1)), (k!)^4 once in term(k)'s denominator
C1_PiIsSeriesReciprocal ==
    (fn = "estimate_pi_ratio" /\ pc = "done" /\ n >= 1)
        => ret = Reciprocal(RMul(a, SeriesSum(n)))

\* C2: inverse(p/q), p # 0, returns q/p with the sign of p on the numerator
C2_InverseIsReciprocal ==
    (fn = "inverse" /\ pc = "done" /\ ~RIsZero(n)) => ret = Reciprocal(n)

\* C3: estimate_pi_ratio(n_terms) with n_terms <= 0 never returns a value: the
\* call ends in a panic
C3_PiOfNoTermsFails ==
    (fn = "estimate_pi_ratio" /\ n <= 0) => pc \in {"loop", "panic"}

\* C3 witness: estimate_pi_ratio(0) has panicked, its sum still zero
C3_Witness == fn = "estimate_pi_ratio" /\ n = 0 /\ pc = "panic" /\ RIsZero(sum)

\* C4: golden_ratio(n) never fails; it returns 0 for n < 2 and L[n-1] / L[n-2]
\* of the Lucas numbers, L[n-2] nonzero, for n >= 2
C4_GoldenRatioIsLucasQuotient ==
    fn = "golden_ratio" =>
        /\ pc # "panic"
        /\ pc = "done" =>
              IF IntToNative(n) < 2
              THEN ret = [num |-> [neg |-> FALSE, mag |-> <<>>], den |-> <<1>>]
              ELSE /\ LucasRef(IntToNative(n) - 2) # 0
                   /\ REqualsNative(ret, LucasRef(IntToNative(n) - 1),
                                    LucasRef(IntToNative(n) - 2))

\* C4 witness: golden_ratio(5) has returned 7/4
C4_Witness ==
    /\ fn = "golden_ratio" /\ pc = "done" /\ IntToNative(n) = 5
    /\ IntToNative(ret.num) = 7 /\ NatToInt(ret.den) = 4

\* x_m of x_0 = k, x_{j+1} = (x_j + k / x_j) / 2 as an unreduced fraction
\* <<p, q>>: p' = p^2 + k q^2, q' = 2 p q
RECURSIVE NewtonRef(_, _)
NewtonRef(k, m) ==
    IF m = 0 THEN << NatFromInt(k), <<1>> >>
    ELSE LET x == NewtonRef(k, m - 1)
         IN << NatAdd(NatMul(x[1], x[1]), NatMulSmall(NatMul(x[2], x[2]), k)),
               NatMulSmall(NatMul(x[1], x[2]), 2) >>

\* r = pq[1] / pq[2], r not negative
REqualsParts(r, pq) ==
    /\ ~r.num.neg
    /\ ~NatIsZero(r.den)
    /\ NatMul(r.num.mag, pq[2]) = NatMul(pq[1], r.den)

\* C5: approx_sqrt(k, iterations), k > 0, does not fail, makes exactly
\* `iterations` passes and returns x_iterations of Newton's recurrence from
\* x_0 = k (so k itself after no pass)
C5_ApproxSqrtIsNewton ==
    (fn = "approx_sqrt" /\ n.number > 0) =>
        /\ pc # "panic"
        /\ i <= n.iterations
        /\ REqualsParts(approx, NewtonRef(n.number, i))
        /\ pc = "done" => (i = n.iterations /\ ret = approx)

\* C5 witness: approx_sqrt(2, 2) has returned 17/12 after two passes
C5_Witness ==
    /\ fn = "approx_sqrt" /\ pc = "done" /\ n.number = 2 /\ n.iterations = 2 /\ i = 2
    /\ IntToNative(ret.num) = 17 /\ NatToInt(ret.den) = 12

\* C6: lucas_sequence(n), n >= 0, returns n elements: 2, 1, and from the
\* third on each the sum of the two before it
C6_LucasSequence ==
    (fn = "lucas_sequence" /\ pc = "done" /\ IntToNative(n) >= 0) =>
        /\ Len(ret) = IntToNative(n)
        /\ Len(ret) >= 1 => NativeSeq(ret)[1] = 2
        /\ Len(ret) >= 2 => NativeSeq(ret)[2] = 1
        /\ \A j \in 3..Len(ret) :
              NativeSeq(ret)[j] = NativeSeq(ret)[j - 1] + NativeSeq(ret)[j - 2]

\* C6 witness: lucas_sequence(5) has returned [2, 1, 3, 4, 7]
C6_Witness ==
    /\ fn = "lucas_sequence" /\ pc = "done" /\ IntToNative(n) = 5
    /\ NativeSeq(ret) = <<2, 1, 3, 4, 7>>

\* C7: fibonacci_sequence(n), n >= 0, returns the first n Fibonacci numbers,
\* n elements
C7_FibonacciSequence ==
    (fn = "fibonacci_sequence" /\ pc = "done" /\ IntToNative(n) >= 0) =>
        /\ Len(ret) = IntToNative(n)
        /\ \A j \in 1..Len(ret) : NativeSeq(ret)[j] = FibRef(j - 1)

C9_FactorialIsProduct ==
    (fn = "factorial" /\ IntToNative(n) >= 0) =>
        (pc = "done" /\ IntToNative(ret) = FactRef(IntToNative(n)))

\* C9 witness: factorial(10) has returned 3628800
C9_Witness ==
    fn = "factorial" /\ pc = "done" /\ IntToNative(n) = 10 /\ IntToNative(ret) = 3628800

\* C10: factorial(n), n negative, returns no value
C10_NegativeFactorialRejected ==
    (fn = "factorial" /\ IntToNative(n) < 0) => pc # "done"

\* lo * (lo + 1) * ... * hi by the recurrence, 1 for the empty range
RECURSIVE ProductRef(_, _)
ProductRef(lo, hi) == IF hi < lo THEN <<1>> ELSE NatMulSmall(ProductRef(lo, hi - 1), hi)

\* m! = (1 * ... * 18) * (19 * ... * m), the two recurrences evaluated apart
FactNatRef(m) ==
    IF m <= 18 THEN ProductRef(1, m) ELSE NatMul(ProductRef(1, 18), ProductRef(19, m))

\* C11: factorial_list(n), for n whose factorial fits u128, returns the n
\* factorials 1!, 2!, ..., n! in this order (element j of the vector, counted
\* from 1, is j!), and so the empty vector for n = 0
C11_FactorialList ==
    (fn = "factorial_list" /\ pc = "done" /\ NatLess(FactNatRef(n), U128Modulus))
        => /\ Len(ret) = n
           /\ \A j \in 1..n : ret[j] = FactNatRef(j)

\* factorial_list(10) has returned its ten factorials
C11_Witness ==
    /\ fn = "factorial_list"
    /\ pc = "done"
    /\ n = 10
    /\ Len(ret) = 10
    /\ NatToInt(ret[10]) = 3628800

\* C12: approx_sqrt(k, iterations), k <= 0, returns no value, whatever the
\* number of iterations
C12_NonPositiveSqrtRejected ==
    (fn = "approx_sqrt" /\ n.number <= 0) => pc # "done"

\* |x - y| of two rationals as an unreduced fraction <<numerator, denominator>>
RDistParts(x, y) ==
    << IntSub(IntMul(x.num, IntMake(FALSE, y.den)),
              IntMul(y.num, IntMake(FALSE, x.den))).mag,
       NatMul(x.den, y.den) >>

\* p < q for unreduced fractions of naturals with denominators not zero
PartsLess(p, q) == NatLess(NatMul(p[1], q[2]), NatMul(q[1], p[2]))

\* |x1 - x2| < |x0 - x1|
DistanceDecreases(x0, x1, x2) == PartsLess(RDistParts(x1, x2), RDistParts(x0, x1))

\* C13: for every k >= 1 the value approx_sqrt(2, k + 2) returns is closer to
\* approx_sqrt(2, k + 1) than approx_sqrt(2, k + 1) is to approx_sqrt(2, k)
C13_SqrtTwoDistancesDecrease ==
    (fn = "approx_sqrt" /\ pc = "done" /\ n.number = 2 /\ n.iterations >= 3)
        => DistanceDecreases(approx_sqrt(2, n.iterations - 2),
                             approx_sqrt(2, n.iterations - 1), ret)

\* C13 witness: approx_sqrt(2, 3) has returned 577/408, at the distance
\* 1/408 from 17/12, and 17/12 is at the distance 1/12 from 3/2
C13_Witness ==
    /\ fn = "approx_sqrt" /\ pc = "done" /\ n.number = 2 /\ n.iterations = 3
    /\ IntToNative(ret.num) = 577 /\ NatToInt(ret.den) = 408
    /\ RDistParts(approx_sqrt(2, 2), ret) = <<NatFromInt(12), NatFromInt(12 * 408)>>
    /\ RDistParts(approx_sqrt(2, 1), approx_sqrt(2, 2)) = <<NatFromInt(2), NatFromInt(24)>>

\* pi = 3.14159265358979323846264338327950288419716939937510..., its digits
PiDigits ==
    << 3, 1, 4, 1, 5, 9, 2, 6, 5, 3, 5, 8, 9, 7, 9, 3, 2, 3, 8, 4, 6, 2, 6, 4, 3, 3,
       8, 3, 2, 7, 9, 5, 0, 2, 8, 8, 4, 1, 9, 7, 1, 6, 9, 3, 9, 9, 3, 7, 5, 1, 0 >>

\* the number of decimal places of PiDigits
PiPlaces == Len(PiDigits) - 1

\* floor(pi * 10^d), d <= PiPlaces
PiFloor(d) == StrToNat([j \in 1..(d + 1) |-> 48 + PiDigits[j]])

\* floor(x * 10^d) of a rational x >= 0
DecimalFloor(x, d) == NatDiv(NatMul(x.num.mag, NatPow(<<10>>, d)), x.den)

\* the number of leading digits (the 3 and the decimal places after it, up
\* to PiPlaces) in which the decimal expansion of x >= 0 agrees with pi's
AgreeDigits(x) ==
    Cardinality({d \in 0..PiPlaces : DecimalFloor(x, d) = PiFloor(d)})

\* the rationals PiLo < pi < PiHi, 10^-PiPlaces apart
PiLo == [num |-> IntMake(FALSE, PiFloor(PiPlaces)), den |-> NatPow(<<10>>, PiPlaces)]
PiHi == [num |-> IntMake(FALSE, NatAdd(PiFloor(PiPlaces), <<1>>)), den |-> NatPow(<<10>>, PiPlaces)]

\* |x - pi| < |y - pi|, decided from the two bounds of pi: y is outside
\* [PiLo, PiHi] and x is closer to both bounds than y is to either
CloserToPi(x, y) ==
    /\ PartsLess(RDistParts(PiLo, PiHi), RDistParts(y, PiLo))
    /\ PartsLess(RDistParts(PiLo, PiHi), RDistParts(y, PiHi))
    /\ \A u \in {PiLo, PiHi} : \A v \in {PiLo, PiHi} :
          PartsLess(RDistParts(x, u), RDistParts(y, v))

\* x agrees with pi in more digits than y and is closer to pi than y
BetterPiEstimate(x, y) == AgreeDigits(x) > AgreeDigits(y) /\ CloserToPi(x, y)

\* C14: for every n_terms >= 1 the value estimate_pi_ratio(n_terms + 1)
\* returns agrees with pi in strictly more decimal digits than the value of
\* estimate_pi_ratio(n_terms), and is strictly closer to pi
C14_PiEstimateImproves ==
    (fn = "estimate_pi_ratio" /\ pc = "done" /\ n >= 2)
        => BetterPiEstimate(ret, estimate_pi_ratio(n - 1).val)

\* the string of the decimal digits ds
DigitString(ds) == [j \in 1..Len(ds) |-> 48 + ds[j]]

StartsWith(str, pre) == Len(str) >= Len(pre) /\ SubSeq(str, 1, Len(pre)) = pre

EndsWith(str, suf) ==
    Len(str) >= Len(suf) /\ SubSeq(str, Len(str) - Len(suf) + 1, Len(str)) = suf

\* r is in lowest terms and r = 9801 / (2206 * x), x > 0
IsPiOfOneTerm(r, x) ==
    /\ ~r.num.neg
    /\ NatGcd(r.num.mag, r.den) = <<1>>
    /\ NatMul(r.num.mag, NatMulSmall(x.num.mag, 2206)) = NatMul(NatMulSmall(x.den, 9801), r.den)

\* str is digits, one '/', digits, from 158853645 to 899151951
IsPinnedRendering(str) ==
    /\ Cardinality({j \in 1..Len(str) : str[j] = 47}) = 1
    /\ \A j \in 1..Len(str) : str[j] = 47 \/ (str[j] >= 48 /\ str[j] <= 57)
    /\ StartsWith(str, DigitString(<<1, 5, 8, 8, 5, 3, 6, 4, 5>>))
    /\ EndsWith(str, DigitString(<<8, 9, 9, 1, 5, 1, 9, 5, 1>>))

\* C15: estimate_pi_ratio(1) returns the fraction 9801 / (2206 * approx_sqrt(2, 10))
\* in lowest terms, and its rendering is numerator/denominator with one '/',
\* starting with 158853645 and ending with 899151951
C15_PiOfOneTerm ==
    (fn = "estimate_pi_ratio" /\ n = 1) =>
        /\ pc # "panic"
        /\ pc = "done" =>
              /\ IsPiOfOneTerm(ret, approx_sqrt(2, 10))
              /\ IsPinnedRendering(RToStr(ret))

\* C15 witness: estimate_pi_ratio(1) has returned after its one pass, and its
\* rendering has the pinned ends
C15_Witness ==
    /\ fn = "estimate_pi_ratio" /\ pc = "done" /\ n = 1 /\ i = 1
    /\ StartsWith(RToStr(ret), DigitString(<<1, 5, 8, 8, 5, 3, 6, 4, 5>>))
    /\ EndsWith(NatToStr(ret.den), DigitString(<<8, 9, 9, 1, 5, 1, 9, 5, 1>>))

\* p / q < phi = (1 + sqrt 5) / 2, for an integer p and a natural q > 0:
\* 2p - q < 0 or (2p - q)^2 < 5 q^2
PhiSide(t, q) == t.neg \/ NatLess(NatSqr(t.mag), NatMulSmall(NatSqr(q), 5))

BelowPhi(p, q) == PhiSide(IntSub(IntMul(IntFrom(2), p), IntMake(FALSE, q)), q)

\* x < y for rationals
RLessThan(x, y) ==
    IntLess(IntMul(x.num, IntMake(FALSE, y.den)), IntMul(y.num, IntMake(FALSE, x.den)))

\* (x + y) / 2 < phi
MidBelowPhi(x, y) ==
    BelowPhi(IntAdd(IntMul(x.num, IntMake(FALSE, y.den)), IntMul(y.num, IntMake(FALSE, x.den))),
             NatMulSmall(NatMul(x.den, y.den), 2))

\* |x - phi| < |y - phi|: on one side of phi the nearer of x and y, on two
\* sides the one their midpoint is not on
CloserToPhi(x, y) ==
    IF BelowPhi(x.num, x.den) = BelowPhi(y.num, y.den)
    THEN IF BelowPhi(x.num, x.den) THEN RLessThan(y, x) ELSE RLessThan(x, y)
    ELSE IF BelowPhi(x.num, x.den) THEN ~MidBelowPhi(x, y) ELSE MidBelowPhi(x, y)

\* |x - phi| < 1 / e, e a natural: x - 1/e < phi < x + 1/e
WithinOfPhi(x, e) ==
    /\ BelowPhi(IntSub(IntMul(x.num, IntMake(FALSE, e)), IntMake(FALSE, x.den)),
                NatMul(x.den, e))
    /\ ~BelowPhi(IntAdd(IntMul(x.num, IntMake(FALSE, e)), IntMake(FALSE, x.den)),
                 NatMul(x.den, e))

\* what golden_ratio returns for one less than the argument that ends with
\* the vector lucas: its vector is lucas without the last element
GoldenBefore(lucas) == golden_parts(SubSeq(lucas, 1, Len(lucas) - 1)).val

\* C16 as stated: golden_ratio(n + 1) is closer to phi than golden_ratio(n)
\* for every n >= 2, and golden_ratio(100) is within 10^-10 of phi
C16_GoldenRatioApproachesPhiFromTwo ==
    (fn = "golden_ratio" /\ pc = "done") =>
        /\ IntToNative(n) >= 3 => CloserToPhi(ret, GoldenBefore(nums))
        /\ IntToNative(n) = 100 => WithinOfPhi(ret, NatPow(<<10>>, 10))

\* C16, amended: golden_ratio(n + 1) is closer to phi than golden_ratio(n)
\* for every n >= 3, and golden_ratio(100) is within 10^-10 of phi
C16_GoldenRatioApproachesPhi ==
    (fn = "golden_ratio" /\ pc = "done") =>
        /\ IntToNative(n) >= 4 => CloserToPhi(ret, GoldenBefore(nums))
        /\ IntToNative(n) = 100 => WithinOfPhi(ret, NatPow(<<10>>, 10))

\* C16 witness: golden_ratio(100) has returned, within 10^-10 of phi and
\* closer to phi than golden_ratio(99)
C16_Witness ==
    /\ fn = "golden_ratio" /\ pc = "done" /\ IntToNative(n) = 100
    /\ Len(nums) = 100
    /\ WithinOfPhi(ret, NatPow(<<10>>, 10))
    /\ CloserToPhi(ret, GoldenBefore(nums))

\* R(j) of the rabbits that die, on TLC's integers
RECURSIVE DyingRef(_)
DyingRef(j) ==
    IF j = 0 THEN 1
    ELSE IF j <= 12 THEN FibRef(j)
    ELSE DyingRef(j - 1) + DyingRef(j - 2) - DyingRef(j - 13)

\* the one vector a generator returns for the argument m: a function of the
\* generator and of m, of nothing else
GeneratorResult(f, m) ==
    IF f = "lucas_sequence"
    THEN IF m = 0 THEN <<>>
         ELSE IF m = 1 THEN <<2>>
         ELSE [j \in 1..MaxI(m, 2) |-> LucasRef(j - 1)]
    ELSE IF f = "fibonacci_sequence" THEN [j \in 1..MaxI(m, 2) |-> FibRef(j - 1)]
    ELSE [j \in 1..m |-> DyingRef(j - 1)]

IsGenerator(f) == f \in {"lucas_sequence", "fibonacci_sequence", "dying_rabbits_sequence"}

\* C17: whatever calls came before and whatever they left behind, a call of
\* a generator with the argument n returns the one vector that belongs to
\* the generator and n, so two calls with the same n return identical vectors
C17_GeneratorsDeterministic ==
    /\ (pc = "done" /\ IsGenerator(fn))
          => NativeSeq(ret) = GeneratorResult(fn, IntToNative(n))
    /\ (pc = "done" /\ fn = "factorial_list")
          => ret = [j \in 1..n |-> FactNatRef(j)]
    /\ (pc = "panic") => ~IsGenerator(fn) /\ fn # "factorial_list"

\* C17 witness: a second call fibonacci_sequence(5) is at the end of its
\* loop with the vector [0, 1, 1, 2, 3], and ret still holds the identical
\* vector that an earlier call fibonacci_sequence(5) returned
C17_Witness ==
    /\ fn = "fibonacci_sequence" /\ pc = "loop" /\ IntToNative(n) = 5
    /\ ~IntLess(i, n)
    /\ NativeSeq(nums) = <<0, 1, 1, 2, 3>>
    /\ ToString(ret) = ToString(nums)

\* m is a prime number: above 1 and with no divisor between 1 and m
IsPrimeRef(m) == m > 1 /\ \A d \in 2..(m - 1) : m % d # 0

\* C18: is_prime(n) returns, and returns true exactly when n is a prime
\* number: false for every n <= 1, true for 2 and for 3
C18_IsPrime ==
    fn = "is_prime" => (pc = "done" /\ ret = IsPrimeRef(n))

\* C18 witness: is_prime(61) has returned true
C18_Witness == fn = "is_prime" /\ pc = "done" /\ n = 61 /\ ret = TRUE

\* C19: generate_primes(limit), limit >= 0, returns a vector, every element
\* of it is a prime p <= limit and every prime p <= limit is an element
C19_GeneratePrimes ==
    (fn = "generate_primes" /\ n >= 0) =>
        /\ pc = "done"
        /\ {ret[j] : j \in 1..Len(ret)} = {q \in 0..n : IsPrimeRef(q)}

\* C20: divisors(n), n >= 1, returns the positive divisors of n, 1 and n
\* among them, each once and in strictly ascending order
C20_Divisors ==
    (fn = "divisors" /\ n >= 1) =>
        /\ pc = "done"
        /\ {ret[j] : j \in 1..Len(ret)} = {q \in 1..n : n % q = 0}
        /\ \A j \in 1..(Len(ret) - 1) : ret[j] < ret[j + 1]

\* the sum of the divisors of m among lo..hi, by halves of the range
RECURSIVE DivisorSumRef(_, _, _)
DivisorSumRef(m, lo, hi) ==
    IF lo > hi THEN 0
    ELSE IF lo = hi THEN (IF m % lo = 0 THEN lo ELSE 0)
    ELSE DivisorSumRef(m, lo, (lo + hi) \div 2) + DivisorSumRef(m, (lo + hi) \div 2 + 1, hi)

\* m is a perfect number: m >= 1 is the sum of its divisors below m
IsPerfectRef(m) == m >= 1 /\ DivisorSumRef(m, 1, m - 1) = m

\* C21: is_perfect_number(n) returns, and returns true exactly when n is a
\* perfect number; false for 0 and for every negative n
C21_IsPerfectNumber ==
    fn = "is_perfect_number" => (pc = "done" /\ ret = IsPerfectRef(n))

\* m is a Mersenne prime: a prime 2^p - 1 with p prime (m below 2^30)
IsMersenneRef(m) ==
    /\ IsPrimeRef(m)
    /\ \E q \in 2..MinI(m, 30) : IsPrimeRef(q) /\ 2^q - 1 = m

\* C22: is_mersenne_prime(m), m >= 1, returns, and returns true exactly when
\* m is a Mersenne prime; false for the primes m with m + 1 no power of two
C22_IsMersennePrime ==
    (fn = "is_mersenne_prime" /\ n >= 1) => (pc = "done" /\ ret = IsMersenneRef(n))

\* C23: is_prime_lazy(n) returns, and returns true exactly when n is a prime
\* number, n = 0 and negative n included
C23_IsPrimeLazy ==
    fn = "is_prime_lazy" => (pc = "done" /\ ret = IsPrimeRef(n))

\* the primes q <= m with 2^q - 1 prime (m below 31)
MersenneExponents(m) == {q \in 2..m : IsPrimeRef(q) /\ IsPrimeRef(2^q - 1)}

\* C24: generate_even_perfect_numbers(n), 0 <= n <= 17, returns in ascending
\* order exactly the numbers 2^(p-1) * (2^p - 1) for the primes p <= n with
\* 2^p - 1 prime, and every element is a perfect number
C24_EvenPerfectNumbers ==
    (fn = "generate_even_perfect_numbers" /\ n >= 0 /\ n <= 17) =>
        /\ pc = "done"
        /\ {ret[j] : j \in 1..Len(ret)} = {2^(q - 1) * (2^q - 1) : q \in MersenneExponents(n)}
        /\ \A j \in 1..(Len(ret) - 1) : ret[j] < ret[j + 1]
        /\ \A j \in 1..Len(ret) : IsPerfectRef(ret[j])

AboveRootBeforeDivisor(m, p) ==
    \E j \in 1..Len(p) :
        /\ m >= 0 /\ p[j] * p[j] > m
        /\ \A k \in 1..j : m % p[k] # 0

\* C26 but for the range of the last part: is_prime_list(n, p) is true
\* exactly when an element above the square root of n comes before any
\* divisor of n; it is false for i32::MAX, i32::MIN, -7 and -11 with
\* p = [2, 3, 5, 7]; with p = generate_primes(B), B >= n >= lo, it is true
\* exactly when n is prime
IsPrimeListFrom(lo) ==
    fn = "is_prime_list" =>
        /\ pc = "done"
        /\ ret = AboveRootBeforeDivisor(n.number, n.primes)
        /\ (n.primes = <<2, 3, 5, 7>> /\ n.number \in {I32Max, I32Min, -7, -11})
              => ret = FALSE
        /\ \A limit \in 0..MaxPrime :
              (limit >= n.number /\ n.number >= lo /\ n.primes = generate_primes(limit).val)
                  => ret = IsPrimeRef(n.number)

ReturnIsExactSwap == ret = Reciprocal(RMul(a, sum))

\* C27 as stated: the reciprocal step gives the true reciprocal when
\* n_terms = 1 and a different value when n_terms >= 2
C27_ReciprocalOnlyForOneTerm ==
    (fn = "estimate_pi_ratio" /\ pc = "done")
        => IF n = 1 THEN ReturnIsExactSwap ELSE ~ReturnIsExactSwap

\* C27 amended: for every n_terms >= 1 the reciprocal step gives the true
\* reciprocal, in inverse(a * sum) and in every c_n of the terms added, the
\* squared numerator being a perfect square and the arguments positive
C27_ReciprocalForEveryTerm ==
    (fn = "estimate_pi_ratio" /\ pc = "done")
        => /\ ReturnIsExactSwap
           /\ \A k \in 0..(n - 1) : c_n(k) = Reciprocal(c_n_og(k))

\* C27 witness: estimate_pi_ratio(2) has returned the exact swap of a * sum
\* and its second c_n is the exact swap of a fraction other than 1
C27_Witness ==
    /\ fn = "estimate_pi_ratio" /\ pc = "done" /\ n = 2
    /\ ReturnIsExactSwap
    /\ c_n(1) = Reciprocal(c_n_og(1))
    /\ c_n_og(1) # RFromInt(1)

\* estimate_pi_ratio is at the head of its loop
AtPiLoopHead == fn = "estimate_pi_ratio" /\ pc = "loop"

\* at the loop head, and after the loop, the counter is in 0..max(n_terms, 0),
\* which is inside every counter type that holds n_terms, and sum is the sum
\* of the terms of the passes 0..i-1, positive once a pass is done; the loop
\* is left only with the counter at max(n_terms, 0)
PiLoopInvariant ==
    fn = "estimate_pi_ratio" =>
        /\ 0 <= i /\ i <= MaxI(n, 0)
        /\ sum = PiSumAfter(i)
        /\ i >= 1 => RLessThan(RFromInt(0), sum)
        /\ pc # "loop" => i = MaxI(n, 0)

\* a step from the loop head either leaves the loop for good, with counter
\* and sum as they are, or is one pass: it adds one strictly positive term to
\* sum and one to the counter, so that the MaxI(n, 0) - i passes that remain
\* become one fewer
PiLoopPass ==
    AtPiLoopHead =>
        /\ n' = n
        /\ IF pc' = "loop"
           THEN /\ i' = i + 1
                /\ MaxI(n, 0) - i' < MaxI(n, 0) - i
                /\ RLessThan(RFromInt(0), PiTerm(i))
                /\ sum' = RAdd(sum, PiTerm(i))
                /\ sum' # sum
           ELSE <<i, sum>>' = <<i, sum>>

\* C28: in estimate_pi_ratio(n_terms) the counter stays in 0..max(n_terms, 0),
\* sum is the sum of the terms of the passes done and is positive after the
\* first, each pass adds one strictly positive term and one to the counter
\* and leaves one pass fewer to go, and the loop is left only after exactly
\* max(n_terms, 0) passes
C28_PiLoop ==
    /\ []PiLoopInvariant
    /\ [][PiLoopPass]_vars

\* C28 witness: estimate_pi_ratio(3) has left its loop after three passes
\* with the positive sum of the terms 0, 1 and 2
C28_Witness ==
    /\ fn = "estimate_pi_ratio" /\ pc = "done" /\ n = 3 /\ i = 3
    /\ sum = RAdd(RAdd(PiTerm(0), PiTerm(1)), PiTerm(2))
    /\ RLessThan(RFromInt(0), sum)


\* s is t cut off after Len(s) elements
IsPrefixOf(s, t) == Len(s) <= Len(t) /\ s = SubSeq(t, 1, Len(s))

\* a loop of generate_lucas_sequence, fibonacci_sequence or
\* dying_rabbits_sequence is running
InGeneratorLoop == pc = "loop" /\ (IsGenerator(fn) \/ fn = "golden_ratio")

\* at the loop head the vector is what the generator returns for the counter
\* as its argument; what the generator returns for n is a prefix of what it
\* returns for n + 1
GeneratorPrefix ==
    /\ (pc = "loop" /\ IsGenerator(fn))
          => NativeSeq(nums) = GeneratorResult(fn, IntToNative(i))
    /\ (pc = "done" /\ IsGenerator(fn) /\ IntToNative(n) >= 0)
          => /\ NativeSeq(ret) = GeneratorResult(fn, IntToNative(n))
             /\ IsPrefixOf(NativeSeq(ret), GeneratorResult(fn, IntToNative(n) + 1))

\* a pass of a generator's loop appends one element and keeps the others; the
\* step that leaves the loop hands the vector on as it is
GeneratorAppends ==
    InGeneratorLoop =>
        /\ nums' # nums => /\ pc' = "loop"
                           /\ Len(nums') = Len(nums) + 1
                           /\ SubSeq(nums', 1, Len(nums)) = nums
        /\ pc' = "loop" => nums' # nums
        /\ (pc' = "done" /\ IsGenerator(fn)) => ret' = nums

\* C29: every pass of the loop of generate_lucas_sequence, fibonacci_sequence
\* and dying_rabbits_sequence appends exactly one element and changes none
\* of those before it, and for n >= 0 the vector returned for n is a prefix
\* of the vector returned for n + 1
C29_GeneratorsAppendOnly ==
    /\ []GeneratorPrefix
    /\ [][GeneratorAppends]_vars

\* C29 witness: lucas_sequence(5) has returned [2, 1, 3, 4, 7], the first
\* five elements of the six that lucas_sequence(6) returns
C29_Witness ==
    /\ fn = "lucas_sequence" /\ pc = "done" /\ IntToNative(n) = 5
    /\ NativeSeq(ret) = <<2, 1, 3, 4, 7>>
    /\ GeneratorResult(fn, 6) = <<2, 1, 3, 4, 7, 11>>


\* C30: factorial_u128(n), and factorial::factorial(n) of the same body,
\* returns exactly n! for 0 <= n <= 34, which is what the arbitrary-precision
\* factorial returns (compared up to MaxBigFact); for n >= 35 the product is
\* beyond 128 bits and the call aborts or returns a value that is not n!; so
\* factorial_list(n) returns the factorials 1!..n! exactly when n <= 34
C30_FixedWidthFactorial ==
    /\ fn = "factorial_u128" =>
          IF n <= 34
          THEN /\ pc = "done" /\ ret = FactNatRef(n)
               /\ n <= MaxBigFact => ret = factorial(IntFrom(n)).mag
          ELSE /\ ~NatLess(FactNatRef(n), NatPow(<<2>>, 128))
               /\ pc = "panic" \/ (pc = "done" /\ ret # FactNatRef(n))
    /\ (fn = "factorial_list" /\ pc = "done") =>
          (ret = [j \in 1..n |-> FactNatRef(j)]) = (n <= 34)
    /\ (fn = "factorial_list" /\ pc = "panic") => n >= 35

\* C30 witness: factorial_u128(34) has returned 34!, of 39 digits, and is
\* within 128 bits, which 35 times as much is not
C30_Witness ==
    /\ fn = "factorial_u128" /\ pc = "done" /\ n = 34
    /\ ret = FactNatRef(34)
    /\ Len(NatToStr(ret)) = 39
    /\ NatLess(ret, NatPow(<<2>>, 128))
    /\ ~NatLess(NatMulSmall(ret, 35), NatPow(<<2>>, 128))


====
